---- MODULE Spec2Model ----
(***************************************************************************)
(* Model of applaunchd: the application-lifecycle daemon.                  *)
(*                                                                         *)
(* The daemon runs one GLib main loop; every D-Bus method handler and      *)
(* every backend callback runs to completion on that loop, so each action  *)
(* below is one whole handler.  The C functions are written as operators   *)
(* over a record `s' holding the program state plus the observable         *)
(* effects of the handler that is running (signals, events, calls).        *)
(***************************************************************************)
EXTENDS Integers, Sequences, FiniteSets, TLC

(* ---------------------------------------------------------------------- *)
(* Bounds                                                                 *)
(* ---------------------------------------------------------------------- *)

\* Number of runtime-data structures that may be allocated over one run
\* (every successful backend start and every unit start allocates one).
MaxHandles == 3

\* Number of runtime-data structures allocated over one run in which only
\* the process manager is at work.
MaxProcesses == 4

\* Longest application identifier and longest command line, in characters,
\* that the string functions are applied to.
MaxIdLen == 4
MaxCmdLen == 4

\* Most PropertiesChanged signals queued for one unit at a time.
MaxPending == 2

(* ---------------------------------------------------------------------- *)
(* Constants of the program                                               *)
(* ---------------------------------------------------------------------- *)

NULL == 0

\* A NULL string pointer (no application id).
NULL_ID == "(null)"

APP_STATUS_INACTIVE == "INACTIVE"
APP_STATUS_STARTING == "STARTING"
APP_STATUS_RUNNING == "RUNNING"

AppStatus == {APP_STATUS_INACTIVE, APP_STATUS_STARTING, APP_STATUS_RUNNING}

\* The three signal-emitting managers and their two signals.
STARTED == "started"
TERMINATED == "terminated"

\* The catalog as produced by the discovery step: one record per kind.
\* A D-Bus activated record has an empty command line.
Catalog ==
    << [app_id |-> "clock", name |-> "Clock", icon_path |-> "/icons/clock.png",
        command |-> "clock --tray",
        dbus_activated |-> FALSE, systemd_activated |-> FALSE,
        graphical |-> TRUE],
       [app_id |-> "org.example.Notes", name |-> "Notes", icon_path |-> "",
        command |-> "",
        dbus_activated |-> TRUE, systemd_activated |-> FALSE,
        graphical |-> TRUE],
       [app_id |-> "term", name |-> "Terminal", icon_path |-> "",
        command |-> "term",
        dbus_activated |-> FALSE, systemd_activated |-> TRUE,
        graphical |-> FALSE] >>

\* Identifiers a client may pass to the "start" method: the catalog's ids,
\* an id differing only in case, and an id that is not in the catalog.
RequestIds == {"clock", "org.example.Notes", "term", "Clock", "nonexistent"}

\* Values the ActiveState property query may yield ("" is a failed query).
UnitStates == {"active", "inactive", "activating", "deactivating", "failed", ""}

\* Outcomes of the three fallible steps of starting a unit.
UnitStartOutcomes == {"ok", "call_failed", "parse_failed", "match_failed"}

VARIABLES
    apps_list,       \* AppLauncher.apps_list: sequence of AppInfo metadata
    status,          \* AppInfo.status, per position in apps_list
    runtime_data,    \* AppInfo.runtime_data, per position: heap index or NULL
    heap,            \* every runtime-data structure ever attached
    process_data,    \* ProcessManager.process_data: list of heap indices
    child_watches,   \* GLib child-watch sources that exist (watcher ids)
    procs,           \* spawned child processes that are still running
    zombies,         \* exited children nobody was watching
    bus_watches,     \* GLib name watches: watcher id -> last callback
    slots,           \* sd-bus match slots that exist (heap indices)
    daemon,          \* "running" or "crashed"
    units,           \* the service manager's units: state, queued signals
    last             \* what the handler that ran last did

vars == << apps_list, status, runtime_data, heap, process_data, child_watches,
           procs, zombies, bus_watches, slots, daemon, units, last >>

AppIdx == 1..Len(Catalog)

(* ---------------------------------------------------------------------- *)
(* Handler-local bookkeeping                                              *)
(* ---------------------------------------------------------------------- *)

NoEffects ==
    [op |-> "init", id |-> "", app |-> NULL, pre_status |-> "", pre_handle |-> NULL,
     reply |-> "none", backend |-> "none", backend_ret |-> "none",
     calls |-> << >>, signals |-> << >>, events |-> << >>, released |-> {},
     result |-> << >>, at_emit |-> << >>, replies |-> << >>, handled |-> TRUE]

\* The program state at the start of a handler, with empty effects.
Begin(op, id, a) ==
    [apps_list |-> apps_list, status |-> status, runtime_data |-> runtime_data,
     heap |-> heap, process_data |-> process_data,
     child_watches |-> child_watches, procs |-> procs,
     bus_watches |-> bus_watches, slots |-> slots, daemon |-> daemon,
     fx |-> [NoEffects EXCEPT !.op = op, !.id = id, !.app = a,
                 !.pre_status = IF a = NULL THEN "" ELSE status[a],
                 !.pre_handle = IF a = NULL THEN NULL ELSE runtime_data[a]]]

\* Commit the state a handler computed.
Commit(s) ==
    /\ apps_list' = s.apps_list
    /\ status' = s.status
    /\ runtime_data' = s.runtime_data
    /\ heap' = s.heap
    /\ process_data' = s.process_data
    /\ child_watches' = s.child_watches
    /\ procs' = s.procs
    /\ bus_watches' = s.bus_watches
    /\ slots' = s.slots
    /\ daemon' = s.daemon
    /\ last' = s.fx

Call(s, what) == [s EXCEPT !.fx.calls = Append(@, what)]

RemoveFirst(seq, x) ==
    LET hits == {i \in 1..Len(seq) : seq[i] = x}
    IN IF hits = {} THEN seq
       ELSE LET k == CHOOSE i \in hits : \A j \in hits : i <= j
            IN SubSeq(seq, 1, k - 1) \o SubSeq(seq, k + 1, Len(seq))

(* ---------------------------------------------------------------------- *)
(* app_info.c                                                             *)
(* ---------------------------------------------------------------------- *)

\* Variant: the status lives in one variable shared by all records.
app_info_set_status_shared(s, a, st) ==
    [s EXCEPT !.status = [i \in DOMAIN @ |-> st]]

app_info_set_status(s, a, st) == [s EXCEPT !.status[a] = st]

app_info_set_runtime_data(s, a, rd) == [s EXCEPT !.runtime_data[a] = rd]

(* ---------------------------------------------------------------------- *)
(* app_launcher.c: lookup and signal forwarding                           *)
(* ---------------------------------------------------------------------- *)

\* ASCII lower-casing of the identifiers in use.
AsciiLower(id) ==
    CASE id = "Clock" -> "clock"
      [] id = "org.example.Notes" -> "org.example.notes"
      [] OTHER -> id

\* Variant: the lookup compares identifiers without regard to case.
app_launcher_get_app_info_nocase(list, app_id) ==
    LET hits == {i \in 1..Len(list) :
                     AsciiLower(list[i].app_id) = AsciiLower(app_id)}
    IN IF hits = {} THEN NULL
       ELSE CHOOSE i \in hits : \A j \in hits : i <= j

\* First record whose app_id equals the argument byte for byte, else NULL.
app_launcher_get_app_info(list, app_id) ==
    LET hits == {i \in 1..Len(list) : list[i].app_id = app_id}
    IN IF hits = {} THEN NULL
       ELSE CHOOSE i \in hits : \A j \in hits : i <= j

\* The "started" handler: emits the public Started(app_id) signal.
app_launcher_started_cb(s, app_id) ==
    [s EXCEPT !.fx.events = Append(@, << STARTED, app_id >>)]

\* The "terminated" handler: emits the public Terminated(app_id) signal.
app_launcher_terminated_cb(s, app_id) ==
    [s EXCEPT !.fx.events = Append(@, << TERMINATED, app_id >>)]

\* Which managers' signals app_launcher_init connects to the two handlers
\* above: the process manager's and the D-Bus activation manager's.  The
\* launcher creates no unit manager and connects to none.
app_launcher_init_connected(mgr) ==
    mgr \in {"process", "dbus"}

\* g_signal_emit on a manager: runs the connected handler synchronously.
\* The status and runtime data the record has at this moment are noted next
\* to the signal.
g_signal_emit(s, mgr, sig, app_id) ==
    LET a == app_launcher_get_app_info(s.apps_list, app_id)
        s1 == [s EXCEPT !.fx.signals = Append(@, << mgr, sig, app_id >>),
                        !.fx.at_emit = Append(@, << s.status[a], s.runtime_data[a] >>)]
    IN IF ~app_launcher_init_connected(mgr) THEN s1
       ELSE IF sig = STARTED THEN app_launcher_started_cb(s1, app_id)
       ELSE app_launcher_terminated_cb(s1, app_id)

(* ---------------------------------------------------------------------- *)
(* Runtime data structures                                                *)
(* ---------------------------------------------------------------------- *)

\* A freshly allocated (g_new0) runtime-data structure of a manager.  `app'
\* is the record the structure was allocated for; pid, watcher and slot are
\* 0 until the manager fills them in.
NewRuntimeData(kind, a) ==
    [kind |-> kind, app |-> a, pid |-> 0, watcher |-> 0, fdo_proxy |-> FALSE,
     slot |-> FALSE, esc_service |-> FALSE, freed |-> 0]

\* g_free on a runtime-data structure.
g_free(s, rd) ==
    [s EXCEPT !.heap[rd].freed = @ + 1, !.fx.released = @ \cup {rd}]

(* ---------------------------------------------------------------------- *)
(* process_manager.c                                                      *)
(* ---------------------------------------------------------------------- *)

\* The app_id stored in the first tracked structure whose pid matches.
get_app_id_for_pid(s, pid) ==
    LET hits == {i \in 1..Len(s.process_data) :
                     s.heap[s.process_data[i]].pid = pid}
    IN IF hits = {} THEN NULL_ID
       ELSE LET k == CHOOSE i \in hits : \A j \in hits : i <= j
            IN s.apps_list[s.heap[s.process_data[k]].app].app_id

\* Variant: the command line is split in place, which cuts the record's
\* command at its first blank.
process_manager_start_app_split_in_place(s, a, spawn_pid) ==
    LET app_id == s.apps_list[a].app_id
        s0 == [s EXCEPT !.fx.backend = "process",
                        !.apps_list[a].command = s.apps_list[a].app_id]
        s1 == Call(s0, "g_spawn_async")
    IN IF spawn_pid = 0
       THEN [s1 EXCEPT !.fx.backend_ret = "failed"]
       ELSE LET rd == Len(s.heap) + 1
                s2 == Call(s1, "g_child_watch_add")
                s3 == [s2 EXCEPT
                         !.heap = Append(@, [NewRuntimeData("process", a) EXCEPT
                                                !.pid = spawn_pid, !.watcher = rd]),
                         !.procs = @ \cup {rd},
                         !.child_watches = @ \cup {rd},
                         !.process_data = Append(@, rd)]
                s4 == app_info_set_runtime_data(s3, a, rd)
                s5 == g_signal_emit(s4, "process", STARTED, app_id)
            IN [s5 EXCEPT !.fx.backend_ret = "ok"]

\* Spawn the command line and watch the child.  The structure is attached
\* to the record and "started" is emitted; the record's status is not
\* written here.
process_manager_start_app(s, a, spawn_pid) ==
    LET app_id == s.apps_list[a].app_id
        s0 == [s EXCEPT !.fx.backend = "process"]
        s1 == Call(s0, "g_spawn_async")
    IN IF spawn_pid = 0
       THEN [s1 EXCEPT !.fx.backend_ret = "failed"]
       ELSE LET rd == Len(s.heap) + 1
                s2 == Call(s1, "g_child_watch_add")
                s3 == [s2 EXCEPT
                         !.heap = Append(@, [NewRuntimeData("process", a) EXCEPT
                                                !.pid = spawn_pid, !.watcher = rd]),
                         !.procs = @ \cup {rd},
                         !.child_watches = @ \cup {rd},
                         !.process_data = Append(@, rd)]
                s4 == app_info_set_runtime_data(s3, a, rd)
                s5 == g_signal_emit(s4, "process", STARTED, app_id)
            IN [s5 EXCEPT !.fx.backend_ret = "ok"]

\* The child-watch callback for `pid'.  The structure it releases is the
\* one attached to the record, read through a pointer that may be NULL.
process_manager_app_terminated_cb(s, pid) ==
    LET app_id == get_app_id_for_pid(s, pid)
        a == app_launcher_get_app_info(s.apps_list, app_id)
    IN IF app_id = NULL_ID THEN s
       ELSE IF a = NULL THEN s
       ELSE LET rd == s.runtime_data[a]
            IN IF rd = NULL
               THEN [s EXCEPT !.daemon = "crashed"]
               ELSE LET s1 == Call(s, "g_source_remove")
                        s2 == [s1 EXCEPT !.child_watches = @ \ {s.heap[rd].watcher}]
                        s3 == app_info_set_status(s2, a, APP_STATUS_INACTIVE)
                        s4 == app_info_set_runtime_data(s3, a, NULL)
                        s5 == [s4 EXCEPT !.process_data = RemoveFirst(@, rd)]
                        s6 == g_free(s5, rd)
                    IN g_signal_emit(s6, "process", TERMINATED, app_id)

(* ---------------------------------------------------------------------- *)
(* dbus_activation_manager.c                                              *)
(* ---------------------------------------------------------------------- *)

\* Variant: the structure is freed but the name watch is left registered.
dbus_activation_manager_free_runtime_data_keepwatch(s, rd) ==
    IF rd = NULL THEN s
    ELSE g_free([s EXCEPT !.heap[rd].fdo_proxy = FALSE], rd)

\* Variant: the name is unwatched and the structure freed, but the cached
\* proxy is not dropped.
dbus_activation_manager_free_runtime_data_keepproxy(s, rd) ==
    IF rd = NULL THEN s
    ELSE LET s2 == IF s.heap[rd].watcher > 0
                   THEN [Call(s, "g_bus_unwatch_name") EXCEPT
                           !.bus_watches =
                               [w \in DOMAIN @ \ {s.heap[rd].watcher} |-> @[w]]]
                   ELSE s
         IN g_free(s2, rd)

\* Drop the proxy, unwatch the name when a watch was registered, free.
dbus_activation_manager_free_runtime_data(s, rd) ==
    IF rd = NULL THEN s
    ELSE LET s1 == [s EXCEPT !.heap[rd].fdo_proxy = FALSE]
             s2 == IF s.heap[rd].watcher > 0
                   THEN [Call(s1, "g_bus_unwatch_name") EXCEPT
                           !.bus_watches =
                               [w \in DOMAIN @ \ {s.heap[rd].watcher} |-> @[w]]]
                   ELSE s1
         IN g_free(s2, rd)

\* Variant: the cached proxy is ignored and a proxy is created every time.
dbus_activation_manager_activate_app_nocache(s, a, proxy_ok, call_ok) ==
    LET rd == s.runtime_data[a]
        app_id == s.apps_list[a].app_id
    IN IF rd = NULL THEN s
       ELSE LET s1 == [Call(s, "fdo_application_proxy_new_for_bus_sync")
                         EXCEPT !.heap[rd].fdo_proxy = proxy_ok]
                s2 == IF s1.heap[rd].fdo_proxy
                      THEN Call(s1, IF call_ok
                                    THEN "fdo_application_call_activate_sync"
                                    ELSE "fdo_application_call_activate_sync:error")
                      ELSE s1
            IN g_signal_emit(s2, "dbus", STARTED, app_id)

\* Variant: "started" is emitted only after a successful Activate call.
dbus_activation_manager_activate_app_failfast(s, a, proxy_ok, call_ok) ==
    LET rd == s.runtime_data[a]
        app_id == s.apps_list[a].app_id
    IN IF rd = NULL THEN s
       ELSE LET s1 == IF s.heap[rd].fdo_proxy THEN s
                      ELSE [Call(s, "fdo_application_proxy_new_for_bus_sync")
                              EXCEPT !.heap[rd].fdo_proxy = proxy_ok]
                s2 == IF s1.heap[rd].fdo_proxy
                      THEN Call(s1, IF call_ok
                                    THEN "fdo_application_call_activate_sync"
                                    ELSE "fdo_application_call_activate_sync:error")
                      ELSE s1
            IN IF s1.heap[rd].fdo_proxy /\ call_ok
               THEN g_signal_emit(s2, "dbus", STARTED, app_id)
               ELSE s2

\* Create the proxy when none is cached, call Activate on it when there is
\* one, and emit "started" whatever the two calls did.
dbus_activation_manager_activate_app(s, a, proxy_ok, call_ok) ==
    LET rd == s.runtime_data[a]
        app_id == s.apps_list[a].app_id
    IN IF rd = NULL THEN s
       ELSE LET s1 == IF s.heap[rd].fdo_proxy THEN s
                      ELSE [Call(s, "fdo_application_proxy_new_for_bus_sync")
                              EXCEPT !.heap[rd].fdo_proxy = proxy_ok]
                s2 == IF s1.heap[rd].fdo_proxy
                      THEN Call(s1, IF call_ok
                                    THEN "fdo_application_call_activate_sync"
                                    ELSE "fdo_application_call_activate_sync:error")
                      ELSE s1
            IN g_signal_emit(s2, "dbus", STARTED, app_id)

\* Variant: the name is watched but the record is not marked STARTING.
dbus_activation_manager_start_app_nostatus(s, a, watch_ok) ==
    LET s0 == [s EXCEPT !.fx.backend = "dbus"]
        s1 == Call(s0, "g_bus_watch_name")
    IN IF ~watch_ok
       THEN [s1 EXCEPT !.fx.backend_ret = "failed"]
       ELSE LET rd == Len(s.heap) + 1
                s2 == [s1 EXCEPT
                         !.heap = Append(@, [NewRuntimeData("dbus", a) EXCEPT
                                                !.watcher = rd]),
                         !.bus_watches = (rd :> "none") @@ @]
                s4 == app_info_set_runtime_data(s2, a, rd)
            IN [s4 EXCEPT !.fx.backend_ret = "ok"]

\* Watch the name with auto-start; on success the record is STARTING.
dbus_activation_manager_start_app(s, a, watch_ok) ==
    LET s0 == [s EXCEPT !.fx.backend = "dbus"]
        s1 == Call(s0, "g_bus_watch_name")
    IN IF ~watch_ok
       THEN [s1 EXCEPT !.fx.backend_ret = "failed"]
       ELSE LET rd == Len(s.heap) + 1
                s2 == [s1 EXCEPT
                         !.heap = Append(@, [NewRuntimeData("dbus", a) EXCEPT
                                                !.watcher = rd]),
                         !.bus_watches = (rd :> "none") @@ @]
                s3 == app_info_set_status(s2, a, APP_STATUS_STARTING)
                s4 == app_info_set_runtime_data(s3, a, rd)
            IN [s4 EXCEPT !.fx.backend_ret = "ok"]

\* Name-vanished callback.
dbus_activation_manager_app_terminated_cb(s, name) ==
    LET a == app_launcher_get_app_info(s.apps_list, name)
    IN IF a = NULL THEN s
       ELSE LET rd == s.runtime_data[a]
                s1 == app_info_set_status(s, a, APP_STATUS_INACTIVE)
                s2 == app_info_set_runtime_data(s1, a, NULL)
                s3 == dbus_activation_manager_free_runtime_data(s2, rd)
            IN g_signal_emit(s3, "dbus", TERMINATED, name)

\* Name-appeared callback.
dbus_activation_manager_app_started_cb(s, name, proxy_ok, call_ok) ==
    LET a == app_launcher_get_app_info(s.apps_list, name)
    IN IF a = NULL THEN s
       ELSE dbus_activation_manager_activate_app(
                app_info_set_status(s, a, APP_STATUS_RUNNING), a, proxy_ok, call_ok)

(* ---------------------------------------------------------------------- *)
(* systemd_manager.c                                                      *)
(* ---------------------------------------------------------------------- *)

\* Variant: the structure is freed while the match slot stays referenced.
systemd_manager_free_runtime_data_keepslot(s, rd) ==
    IF rd = NULL THEN s
    ELSE g_free([s EXCEPT !.heap[rd].esc_service = FALSE], rd)

\* Unref the match slot, free the escaped unit path, free the structure.
systemd_manager_free_runtime_data(s, rd) ==
    IF rd = NULL THEN s
    ELSE LET s1 == Call(s, "sd_bus_slot_unref")
             s2 == [s1 EXCEPT !.slots = @ \ {rd},
                              !.heap[rd].slot = FALSE,
                              !.heap[rd].esc_service = FALSE]
         IN g_free(s2, rd)

\* Allocate the structure, call StartUnit, read the reply, encode the
\* unit's path and subscribe to PropertiesChanged on it.  Any failing step
\* jumps to `finish', which frees the structure (and nothing it points to).
systemd_manager_start_app(s, a, outcome) ==
    LET rd == Len(s.heap) + 1
        finish(x) == [g_free(x, rd) EXCEPT !.fx.backend_ret = "failed"]
        s0 == [s EXCEPT !.fx.backend = "systemd",
                        !.heap = Append(@, NewRuntimeData("systemd", a))]
        s1 == Call(s0, "StartUnit")
        s2 == [s1 EXCEPT !.heap[rd].esc_service = TRUE]
    IN CASE outcome = "call_failed" -> finish(Call(s0, "StartUnit:error"))
         [] outcome = "parse_failed" ->
              finish(Call(s1, "sd_bus_message_read:error"))
         [] outcome = "match_failed" ->
              finish(Call(s2, "sd_bus_match_signal:error"))
         [] outcome = "ok" ->
              LET s3 == [Call(s2, "sd_bus_match_signal") EXCEPT
                           !.heap[rd].slot = TRUE,
                           !.slots = @ \cup {rd}]
                  s4 == app_info_set_runtime_data(s3, a, rd)
                  s5 == app_info_set_status(s4, a, APP_STATUS_STARTING)
              IN [s5 EXCEPT !.fx.backend_ret = "ok"]

\* Variant: "active" emits the signal without writing the status.
systemd_manager_cb_nostatus(s, a, msg) ==
    LET data == s.runtime_data[a]
        app_id == s.apps_list[a].app_id
    IN IF data = NULL THEN s
       ELSE LET s1 == Call(s, "sd_bus_get_property_string")
            IN IF msg = "inactive"
               THEN LET s2 == app_info_set_status(s1, a, APP_STATUS_INACTIVE)
                        s3 == app_info_set_runtime_data(s2, a, NULL)
                        s4 == g_signal_emit(s3, "systemd", TERMINATED, app_id)
                    IN systemd_manager_free_runtime_data(s4, data)
               ELSE IF msg = "active"
               THEN g_signal_emit(s1, "systemd", STARTED, app_id)
               ELSE s1

\* Variant: every state other than "active" is taken for the unit's end.
systemd_manager_cb_else_inactive(s, a, msg) ==
    LET data == s.runtime_data[a]
        app_id == s.apps_list[a].app_id
    IN IF data = NULL THEN s
       ELSE LET s1 == Call(s, "sd_bus_get_property_string")
            IN IF msg = "active"
               THEN LET s2 == app_info_set_status(s1, a, APP_STATUS_RUNNING)
                    IN g_signal_emit(s2, "systemd", STARTED, app_id)
               ELSE LET s2 == app_info_set_status(s1, a, APP_STATUS_INACTIVE)
                        s3 == app_info_set_runtime_data(s2, a, NULL)
                        s4 == g_signal_emit(s3, "systemd", TERMINATED, app_id)
                    IN systemd_manager_free_runtime_data(s4, data)

\* PropertiesChanged callback of the record `a': query ActiveState and act
\* on "inactive" and "active" only.
systemd_manager_cb(s, a, msg) ==
    LET data == s.runtime_data[a]
        app_id == s.apps_list[a].app_id
    IN IF data = NULL THEN s
       ELSE LET s1 == Call(s, "sd_bus_get_property_string")
            IN IF msg = "inactive"
               THEN LET s2 == app_info_set_status(s1, a, APP_STATUS_INACTIVE)
                        s3 == app_info_set_runtime_data(s2, a, NULL)
                        s4 == g_signal_emit(s3, "systemd", TERMINATED, app_id)
                    IN systemd_manager_free_runtime_data(s4, data)
               ELSE IF msg = "active"
               THEN LET s2 == app_info_set_status(s1, a, APP_STATUS_RUNNING)
                    IN g_signal_emit(s2, "systemd", STARTED, app_id)
               ELSE s1

(* ---------------------------------------------------------------------- *)
(* app_launcher.c: the "start" method                                     *)
(* ---------------------------------------------------------------------- *)

\* Variant: the STARTING case lacks its return and runs into the RUNNING
\* case.
app_launcher_start_app_fallthrough(s, a, in) ==
    LET app_status == s.status[a]
    IN CASE app_status \in {APP_STATUS_STARTING, APP_STATUS_RUNNING} ->
              IF s.apps_list[a].dbus_activated
              THEN dbus_activation_manager_activate_app(s, a, in.proxy_ok, in.call_ok)
              ELSE s
         [] app_status = APP_STATUS_INACTIVE ->
              IF s.apps_list[a].dbus_activated
              THEN dbus_activation_manager_start_app(s, a, in.watch_ok)
              ELSE process_manager_start_app(s, a, in.spawn_pid)

\* Dispatch on the record's status, then on dbus_activated alone: every
\* record that is not D-Bus activated goes to the process manager.  The
\* managers' results are not looked at.
app_launcher_start_app(s, a, in) ==
    LET app_status == s.status[a]
    IN CASE app_status = APP_STATUS_STARTING -> s
         [] app_status = APP_STATUS_RUNNING ->
              IF s.apps_list[a].dbus_activated
              THEN dbus_activation_manager_activate_app(s, a, in.proxy_ok, in.call_ok)
              ELSE s
         [] app_status = APP_STATUS_INACTIVE ->
              IF s.apps_list[a].dbus_activated
              THEN dbus_activation_manager_start_app(s, a, in.watch_ok)
              ELSE process_manager_start_app(s, a, in.spawn_pid)

\* A reply sent on the method invocation the handler was given.
g_dbus_method_invocation_return(s, reply) ==
    [s EXCEPT !.fx.reply = reply, !.fx.replies = Append(@, reply)]

\* The "start" method: an error reply for an unknown id and FALSE returned,
\* otherwise start the application, complete the call and return TRUE.
app_launcher_handle_start(s, app_id, in) ==
    LET app == app_launcher_get_app_info(s.apps_list, app_id)
    IN IF app = NULL
       THEN [g_dbus_method_invocation_return(s, "G_DBUS_ERROR_INVALID_ARGS")
                EXCEPT !.fx.handled = FALSE]
       ELSE [g_dbus_method_invocation_return(
                 app_launcher_start_app(s, app, in), "complete_start")
                EXCEPT !.fx.handled = TRUE]

\* The loop of app_launcher_get_list_variant from index i on: a record is
\* skipped when only graphical ones are wanted and it is not graphical,
\* otherwise its (app-id, name, icon path) entry is added to the builder.
RECURSIVE list_variant_loop(_, _, _, _)
list_variant_loop(list, graphical, i, builder) ==
    IF i > Len(list) THEN builder
    ELSE IF graphical /\ ~list[i].graphical
         THEN list_variant_loop(list, graphical, i + 1, builder)
         ELSE list_variant_loop(list, graphical, i + 1,
                  Append(builder, << list[i].app_id, list[i].name,
                                     list[i].icon_path >>))

\* Variant: the graphical argument is not looked at.
app_launcher_get_list_variant_unfiltered(list, graphical) ==
    list_variant_loop(list, FALSE, 1, << >>)

\* The array of entries sent as the reply of "listApplications".
app_launcher_get_list_variant(list, graphical) ==
    list_variant_loop(list, graphical, 1, << >>)

\* The "listApplications" method: build the list and complete the call.
app_launcher_handle_list_applications(s, graphical) ==
    [g_dbus_method_invocation_return(s, "complete_list_applications")
        EXCEPT !.fx.result = app_launcher_get_list_variant(s.apps_list, graphical),
               !.fx.handled = TRUE]

(* ---------------------------------------------------------------------- *)
(* The state machine                                                      *)
(* ---------------------------------------------------------------------- *)

\* The entries of the process manager's tracking list.
Tracked(list) == { list[i] : i \in 1..Len(list) }

\* The process ids a new child may get: one never used before, or the id
\* of a child that was reaped while its structure is still in the tracking
\* list (the system hands out the ids of reaped processes again).  Ids of
\* reaped children that are no longer tracked behave like unused ones.
SpawnPids ==
    LET alive == { heap[h].pid : h \in procs \cup zombies }
        stale == { heap[e].pid : e \in Tracked(process_data) \ (procs \cup zombies) }
    IN { Len(heap) + 1 } \cup (stale \ alive)

\* What the environment decides during one "start" call: whether the spawn
\* works and which process id the child gets (0: the spawn fails), whether
\* the name watch is registered, whether the proxy is created and whether
\* Activate returns an error.  Only the decisions a call on this record can
\* run into are varied: a record that is not D-Bus activated never reaches
\* the name watch or the proxy, and a D-Bus activated one never reaches the
\* spawn.
StartInputs(a) ==
    LET dbus == a # NULL /\ apps_list[a].dbus_activated
        other == a # NULL /\ ~apps_list[a].dbus_activated
        inactive == a # NULL /\ status[a] = APP_STATUS_INACTIVE
    IN [spawn_pid : IF other /\ inactive THEN {0} \cup SpawnPids ELSE {0},
        watch_ok : IF dbus /\ inactive THEN BOOLEAN ELSE {TRUE},
        proxy_ok : IF dbus /\ ~inactive THEN BOOLEAN ELSE {TRUE},
        call_ok : IF dbus /\ ~inactive THEN BOOLEAN ELSE {TRUE}]

Init ==
    /\ apps_list = Catalog
    /\ status = [a \in AppIdx |-> APP_STATUS_INACTIVE]
    /\ runtime_data = [a \in AppIdx |-> NULL]
    /\ heap = << >>
    /\ process_data = << >>
    /\ child_watches = {}
    /\ procs = {}
    /\ zombies = {}
    /\ bus_watches = << >>
    /\ slots = {}
    /\ daemon = "running"
    /\ units = [a \in AppIdx |-> [state |-> "inactive", pending |-> 0]]
    /\ last = NoEffects

\* A client calls the "start" method with app_id, in a run that allocates
\* at most `bound' runtime-data structures.
HandleStartWithin(app_id, in, bound) ==
    /\ daemon = "running"
    /\ LET a == app_launcher_get_app_info(apps_list, app_id)
           s == app_launcher_handle_start(Begin("start", app_id, a), app_id, in)
       IN /\ Len(s.heap) <= bound
          /\ Commit(s)
    /\ UNCHANGED << zombies, units >>

\* A client calls the "start" method with app_id.
HandleStart(app_id, in) == HandleStartWithin(app_id, in, MaxHandles)

\* A client calls the "listApplications" method.
HandleListApplications(graphical) ==
    /\ daemon = "running"
    /\ Commit(app_launcher_handle_list_applications(
                  Begin("list", IF graphical THEN "graphical_only" ELSE "all", NULL),
                  graphical))
    /\ UNCHANGED << zombies, units >>

\* The unit manager is asked to start a unit-activated record.  No caller
\* of systemd_manager_start_app is part of the launcher; the request is
\* made under the coordinator's contract: for a record that is Inactive,
\* holds no runtime handle and is unknown to the process manager (it has
\* no running process and no entry in the tracking list).
SystemdStart(a, outcome) ==
    /\ daemon = "running"
    /\ apps_list[a].systemd_activated
    /\ status[a] = APP_STATUS_INACTIVE
    /\ runtime_data[a] = NULL
    /\ \A h \in procs \cup Tracked(process_data) : heap[h].app # a
    /\ LET s == systemd_manager_start_app(
                    Begin("unit_start", apps_list[a].app_id, a), a, outcome)
       IN /\ Len(s.heap) <= MaxHandles
          /\ Commit(s)
    /\ UNCHANGED << zombies, units >>

\* A watched child exits: GLib reaps it, runs the callback with the child's
\* process id and destroys the child-watch source it dispatched.  Children
\* and their watches are named by the structure allocated for them.
ProcessExit(p, how) ==
    /\ daemon = "running"
    /\ p \in procs
    /\ p \in child_watches
    /\ LET a == heap[p].app
           s0 == Begin("child_exit", how, a)
           s1 == [s0 EXCEPT !.procs = @ \ {p}]
           s2 == process_manager_app_terminated_cb(s1, heap[p].pid)
       IN Commit([s2 EXCEPT !.child_watches = @ \ {p}])
    /\ UNCHANGED << zombies, units >>

\* A child whose watch was removed exits: nobody is told and nobody waits
\* for it.
ProcessExitUnwatched(pid) ==
    /\ daemon = "running"
    /\ pid \in procs
    /\ pid \notin child_watches
    /\ procs' = procs \ {pid}
    /\ zombies' = zombies \cup {pid}
    /\ last' = [NoEffects EXCEPT !.op = "child_exit_unwatched",
                                 !.app = heap[pid].app]
    /\ UNCHANGED << apps_list, status, runtime_data, heap, process_data,
                    child_watches, bus_watches, slots, daemon, units >>

\* The watched name gets an owner.  GLib never calls the same handler of
\* a watch twice in a row.
NameAppeared(w, proxy_ok, call_ok) ==
    /\ daemon = "running"
    /\ w \in DOMAIN bus_watches
    /\ bus_watches[w] # "appeared"
    /\ LET name == apps_list[heap[w].app].app_id
           s0 == Begin("name_appeared", name, heap[w].app)
           s1 == [s0 EXCEPT !.bus_watches[w] = "appeared"]
       IN Commit(dbus_activation_manager_app_started_cb(s1, name, proxy_ok, call_ok))
    /\ UNCHANGED << zombies, units >>

\* The watched name has no owner (it lost it, or activation failed).
NameVanished(w) ==
    /\ daemon = "running"
    /\ w \in DOMAIN bus_watches
    /\ bus_watches[w] # "vanished"
    /\ LET name == apps_list[heap[w].app].app_id
           s0 == Begin("name_vanished", name, heap[w].app)
           s1 == [s0 EXCEPT !.bus_watches[w] = "vanished"]
       IN Commit(dbus_activation_manager_app_terminated_cb(s1, name))
    /\ UNCHANGED << zombies, units >>

\* A PropertiesChanged signal matches the slot h; the ActiveState query
\* made by the callback yields msg.
PropertiesChanged(h, msg) ==
    /\ daemon = "running"
    /\ h \in slots
    /\ LET a == heap[h].app
       IN Commit(systemd_manager_cb(Begin("properties_changed", msg, a), a, msg))
    /\ UNCHANGED << zombies, units >>

Next ==
    \/ \E app_id \in RequestIds :
           \E in \in StartInputs(app_launcher_get_app_info(apps_list, app_id)) :
               HandleStart(app_id, in)
    \/ \E graphical \in BOOLEAN : HandleListApplications(graphical)
    \/ \E a \in AppIdx, outcome \in UnitStartOutcomes : SystemdStart(a, outcome)
    \/ \E p \in procs, how \in {"clean", "crashed"} : ProcessExit(p, how)
    \/ \E p \in procs : ProcessExitUnwatched(p)
    \/ \E w \in DOMAIN bus_watches, proxy_ok \in BOOLEAN, call_ok \in BOOLEAN :
           NameAppeared(w, proxy_ok, call_ok)
    \/ \E w \in DOMAIN bus_watches : NameVanished(w)
    \/ \E h \in slots, msg \in UnitStates : PropertiesChanged(h, msg)

Spec == Init /\ [][Next]_vars

\* The runs in which only the process manager is at work: start requests
\* for the records it serves and the exits of the children it spawned.
ProcessNext ==
    \/ \E app_id \in { Catalog[i].app_id : i \in { j \in 1..Len(Catalog) :
                                                    ~Catalog[j].dbus_activated } } :
           \E in \in StartInputs(app_launcher_get_app_info(apps_list, app_id)) :
               HandleStartWithin(app_id, in, MaxProcesses)
    \/ \E p \in procs, how \in {"clean", "crashed"} : ProcessExit(p, how)
    \/ \E p \in procs : ProcessExitUnwatched(p)

ProcessSpec == Init /\ [][ProcessNext]_vars

(* ---------------------------------------------------------------------- *)
(* The unit manager together with the service manager's side of a unit    *)
(* ---------------------------------------------------------------------- *)

\* The moves a unit makes on its own once it was asked to start.
UnitMoves ==
    { <<"activating", "active">>, <<"activating", "failed">>,
      <<"active", "deactivating">>, <<"active", "inactive">>,
      <<"active", "failed">>, <<"deactivating", "inactive">>,
      <<"failed", "inactive">> }

\* The slots subscribed to the unit of record a.
SlotsOf(a) == { h \in slots : heap[h].app = a }

\* systemd_manager_start_app with the unit it talks about: StartUnit is
\* acknowledged when the job is queued, and the unit then proceeds on its
\* own.  `raced' says that it reached "active" before sd_bus_match_signal
\* installed the subscription; PropertiesChanged signals sent before the
\* match exists are not delivered, and the function never queries
\* ActiveState itself.
UnitStart(a, outcome, raced) ==
    /\ daemon = "running"
    /\ apps_list[a].systemd_activated
    /\ status[a] = APP_STATUS_INACTIVE
    /\ runtime_data[a] = NULL
    /\ \A h \in procs \cup Tracked(process_data) : heap[h].app # a
    /\ LET s == systemd_manager_start_app(
                    Begin("unit_start", apps_list[a].app_id, a), a, outcome)
           acknowledged == outcome # "call_failed"
           state == IF ~acknowledged \/ units[a].state \in {"active", "activating"}
                    THEN units[a].state
                    ELSE IF raced THEN "active" ELSE "activating"
       IN /\ acknowledged \/ ~raced
          /\ Len(s.heap) <= MaxHandles
          /\ Commit(s)
          /\ units' = [units EXCEPT ![a] = [state |-> state, pending |-> 0]]
    /\ UNCHANGED zombies

\* The unit changes its state; the service manager sends PropertiesChanged,
\* which is queued for the daemon when a match for the unit exists.
UnitChanges(a, new) ==
    /\ daemon = "running"
    /\ apps_list[a].systemd_activated
    /\ <<units[a].state, new>> \in UnitMoves
    /\ units[a].pending < MaxPending
    /\ units' = [units EXCEPT ![a] =
                     [state |-> new,
                      pending |-> IF SlotsOf(a) = {} THEN 0 ELSE @.pending + 1]]
    /\ last' = [NoEffects EXCEPT !.op = "unit_changes", !.id = new, !.app = a]
    /\ UNCHANGED << apps_list, status, runtime_data, heap, process_data,
                    child_watches, procs, zombies, bus_watches, slots, daemon >>

\* The event loop dispatches a queued PropertiesChanged signal to the
\* callback of slot h; the callback's ActiveState query yields the state
\* the unit has by then, or nothing when the query fails.  Signals queued
\* for a slot the callback released are dropped with it.
UnitNotification(h, query_ok) ==
    /\ daemon = "running"
    /\ h \in slots
    /\ units[heap[h].app].pending > 0
    /\ LET a == heap[h].app
           msg == IF query_ok THEN units[a].state ELSE ""
           s == systemd_manager_cb(Begin("properties_changed", msg, a), a, msg)
       IN /\ Commit(s)
          /\ units' = [units EXCEPT ![a].pending =
                           IF h \in s.slots THEN @ - 1 ELSE 0]
    /\ UNCHANGED zombies

UnitNext ==
    \/ \E a \in AppIdx, outcome \in UnitStartOutcomes, raced \in BOOLEAN :
           UnitStart(a, outcome, raced)
    \/ \E a \in AppIdx, new \in UnitStates : UnitChanges(a, new)
    \/ \E h \in slots, query_ok \in BOOLEAN : UnitNotification(h, query_ok)

UnitSpec == Init /\ [][UnitNext]_vars

(* ---------------------------------------------------------------------- *)
(* Disposal of the daemon's objects when the main loop has quit           *)
(* ---------------------------------------------------------------------- *)

\* app_info_dispose: the record's runtime data is released through the
\* bus manager's routine when the record is D-Bus activated and through
\* plain g_free otherwise (the unit manager's routine is commented out).
app_info_dispose(s, a) ==
    LET rd == s.runtime_data[a]
    IN IF rd = NULL THEN s
       ELSE LET s1 == IF s.apps_list[a].dbus_activated
                      THEN dbus_activation_manager_free_runtime_data(s, rd)
                      ELSE g_free(s, rd)
            IN [s1 EXCEPT !.runtime_data[a] = NULL]

\* g_list_free_full(list, g_object_unref) on the records a..Len(apps_list).
RECURSIVE apps_list_free_full(_, _)
apps_list_free_full(s, a) ==
    IF a > Len(s.apps_list) THEN s
    ELSE apps_list_free_full(app_info_dispose(s, a), a + 1)

\* g_list_free_full(list, g_free) on the entries i..Len(process_data).
RECURSIVE process_data_free_full(_, _)
process_data_free_full(s, i) ==
    IF i > Len(s.process_data) THEN s
    ELSE process_data_free_full(g_free(s, s.process_data[i]), i + 1)

\* process_manager_dispose frees every structure of the tracking list.
process_manager_dispose(s) ==
    [process_data_free_full(s, 1) EXCEPT !.process_data = << >>]

\* app_launcher_dispose: unref every record, then the bus manager (whose
\* dispose releases nothing), then the process manager.
app_launcher_dispose(s) ==
    LET s1 == [apps_list_free_full(s, 1) EXCEPT !.apps_list = << >>]
    IN process_manager_dispose(s1)

\* The main loop has quit (termination signal or loss of the bus name) and
\* main drops the launcher.  Freeing a structure a second time is undefined:
\* the allocator either detects it and aborts the process or does not.
Dispose(detected) ==
    /\ daemon = "running"
    /\ LET s == app_launcher_dispose(Begin("dispose", "", NULL))
           twice == \E h \in 1..Len(s.heap) :
                        s.heap[h].freed > 1 /\ h \in s.fx.released
       IN /\ detected => twice
          /\ Commit([s EXCEPT !.daemon = IF detected THEN "crashed"
                                         ELSE "stopped"])
    /\ UNCHANGED << zombies, units >>

ShutdownNext ==
    \/ Next
    \/ \E detected \in BOOLEAN : Dispose(detected)

ShutdownSpec == Init /\ [][ShutdownNext]_vars

(* ---------------------------------------------------------------------- *)
(* The method handlers under the interface skeleton that calls them       *)
(* ---------------------------------------------------------------------- *)

\* The skeleton's method-call dispatch (the code gdbus-codegen generates
\* for the interface): it emits the handle-* signal, which runs the handler
\* installed by app_launcher_iface_init, and when the handler returns FALSE
\* it answers the invocation itself with the UnknownMethod error.  A
\* handler that replied and returned FALSE has then used up the invocation
\* twice, so the skeleton's last unref hits a released object, which is
\* undefined: it is ignored or it takes the process down.
skeleton_handle_method_call(s, over_unref) ==
    IF s.fx.handled THEN s
    ELSE [g_dbus_method_invocation_return(s, "G_DBUS_ERROR_UNKNOWN_METHOD")
             EXCEPT !.daemon = IF over_unref = "crash" THEN "crashed" ELSE @,
                    !.fx.reply = s.fx.reply]

\* A "start" call arrives on the bus and is dispatched by the skeleton.
DispatchStart(app_id, in, over_unref) ==
    /\ daemon = "running"
    /\ LET a == app_launcher_get_app_info(apps_list, app_id)
           s == app_launcher_handle_start(Begin("start", app_id, a), app_id, in)
       IN /\ Len(s.heap) <= MaxHandles
          /\ over_unref = "none" <=> s.fx.handled
          /\ Commit(skeleton_handle_method_call(s, over_unref))
    /\ UNCHANGED << zombies, units >>

\* A "listApplications" call arrives on the bus.
DispatchListApplications(graphical) ==
    /\ daemon = "running"
    /\ Commit(skeleton_handle_method_call(
                  app_launcher_handle_list_applications(
                      Begin("list", IF graphical THEN "graphical_only" ELSE "all",
                            NULL),
                      graphical),
                  "none"))
    /\ UNCHANGED << zombies, units >>

DispatchNext ==
    \/ \E app_id \in RequestIds :
           \E in \in StartInputs(app_launcher_get_app_info(apps_list, app_id)) :
               \E over_unref \in {"none", "ignored", "crash"} :
                   DispatchStart(app_id, in, over_unref)
    \/ \E graphical \in BOOLEAN : DispatchListApplications(graphical)
    \/ \E p \in procs, how \in {"clean", "crashed"} : ProcessExit(p, how)
    \/ \E p \in procs : ProcessExitUnwatched(p)
    \/ \E w \in DOMAIN bus_watches, proxy_ok \in BOOLEAN, call_ok \in BOOLEAN :
           NameAppeared(w, proxy_ok, call_ok)
    \/ \E w \in DOMAIN bus_watches : NameVanished(w)

DispatchSpec == Init /\ [][DispatchNext]_vars

(* ---------------------------------------------------------------------- *)
(* The string computations of the two start paths, applied to strings     *)
(* written as sequences of characters                                     *)
(* ---------------------------------------------------------------------- *)

\* All sequences over S of length at most n.
StringsOver(S, n) == UNION { [1..k -> S] : k \in 0..n }

\* Characters of application identifiers and of command lines.
IdChars == {"o", "n", "."}
CmdChars == {"c", "-", " "}

g_strconcat(a, b) == a \o b

\* The in-place loop of g_strdelimit from position i on: every character
\* that is one of the delimiters is overwritten with new_delimiter.
RECURSIVE strdelimit_loop(_, _, _, _)
strdelimit_loop(string, delimiters, new_delimiter, i) ==
    IF i > Len(string) THEN string
    ELSE strdelimit_loop(
             IF string[i] \in delimiters
             THEN [string EXCEPT ![i] = new_delimiter] ELSE string,
             delimiters, new_delimiter, i + 1)

\* Variant: only the first delimiter found is overwritten.
g_strdelimit_first(string, delimiters, new_delimiter) ==
    LET hits == { i \in 1..Len(string) : string[i] \in delimiters }
    IN IF hits = {} THEN string
       ELSE [string EXCEPT ![CHOOSE i \in hits : \A j \in hits : i <= j]
                              = new_delimiter]

g_strdelimit(string, delimiters, new_delimiter) ==
    strdelimit_loop(string, delimiters, new_delimiter, 1)

\* The object path activate_app hands to the proxy constructor.
activate_app_path(app_id) ==
    g_strdelimit(g_strconcat(<< "/" >>, app_id), {"."}, "/")

\* g_strsplit with a one-character delimiter and no token limit: the pieces
\* between delimiters, empty ones included, and no piece at all for the
\* empty string.
RECURSIVE strsplit_loop(_, _, _, _, _)
strsplit_loop(string, delimiter, i, piece, pieces) ==
    IF i > Len(string) THEN Append(pieces, piece)
    ELSE IF string[i] = delimiter
         THEN strsplit_loop(string, delimiter, i + 1, << >>, Append(pieces, piece))
         ELSE strsplit_loop(string, delimiter, i + 1,
                            Append(piece, string[i]), pieces)

g_strsplit(string, delimiter) ==
    IF string = << >> THEN << >>
    ELSE strsplit_loop(string, delimiter, 1, << >>, << >>)

\* The argument vector process_manager_start_app hands to g_spawn_async.
start_app_args(command) == g_strsplit(command, " ")

\* activate_app computes the object path for an identifier.
ActivatePath(app_id) ==
    /\ last' = [NoEffects EXCEPT !.op = "activate_path", !.id = app_id,
                                 !.result = activate_app_path(app_id)]
    /\ UNCHANGED << apps_list, status, runtime_data, heap, process_data,
                    child_watches, procs, zombies, bus_watches, slots, daemon,
                    units >>

\* process_manager_start_app splits a command line.
SplitCommand(command) ==
    /\ last' = [NoEffects EXCEPT !.op = "split_command", !.id = command,
                                 !.result = start_app_args(command)]
    /\ UNCHANGED << apps_list, status, runtime_data, heap, process_data,
                    child_watches, procs, zombies, bus_watches, slots, daemon,
                    units >>

StringNext ==
    \/ \E app_id \in StringsOver(IdChars, MaxIdLen) : ActivatePath(app_id)
    \/ \E command \in StringsOver(CmdChars, MaxCmdLen) : SplitCommand(command)

StringSpec == Init /\ [][StringNext]_vars

(* ---------------------------------------------------------------------- *)
(* Vocabulary of the properties                                           *)
(* ---------------------------------------------------------------------- *)

Handles == 1..Len(heap)

\* The activation kind of a record, from its two flags.
KindOf(a) ==
    IF apps_list[a].dbus_activated THEN "BusActivated"
    ELSE IF apps_list[a].systemd_activated THEN "UnitActivated"
    ELSE "Process"

\* The backend resources that exist for the record a: running children and
\* exit watches, name watches, property-change subscriptions.
LiveResources(a) ==
    {h \in Handles : /\ heap[h].app = a
                     /\ \/ h \in procs
                        \/ h \in child_watches
                        \/ h \in DOMAIN bus_watches
                        \/ h \in slots}

\* The last handler was a "start" call for a record of the catalog.
StartOnRecord == last.op = "start" /\ last.app # NULL

\* How many public events of this kind the last handler emitted for app_id.
EventCount(sig, app_id) ==
    Cardinality({i \in 1..Len(last.events) : last.events[i] = << sig, app_id >>})

\* How many signals of this kind a manager emitted in the last handler.
SignalCount(sig, app_id) ==
    Cardinality({i \in 1..Len(last.signals) :
                     /\ last.signals[i][2] = sig
                     /\ last.signals[i][3] = app_id})

\* How often the last handler made the call `what'.
CallCount(what) ==
    Cardinality({i \in 1..Len(last.calls) : last.calls[i] = what})

(* ---------------------------------------------------------------------- *)
(* Properties                                                             *)
(* ---------------------------------------------------------------------- *)

\* C1 -- State/handle coupling: between handlers, every record has a
\* runtime handle if and only if its status is not Inactive.
C1_StateHandleCoupling ==
    \A a \in AppIdx :
        (runtime_data[a] # NULL) <=> (status[a] # APP_STATUS_INACTIVE)

\* C2 -- At most one runtime handle per record: whatever the interleaving
\* of start requests and notifications, no record ever has two spawned
\* processes, two name watches or two unit subscriptions at a time.
C2_AtMostOneHandle ==
    \A a \in AppIdx : Cardinality(LiveResources(a)) <= 1

ActivateCalls ==
    {"fdo_application_call_activate_sync", "fdo_application_call_activate_sync:error"}

\* C4 -- Re-activation frame: a start request for a Running D-Bus
\* activated record attempts the Activate call again (on the cached proxy
\* when there is one, creating the proxy first when there is none) and
\* changes neither the status, nor the runtime handle, nor the name watch;
\* for a Running record that is not D-Bus activated it changes nothing
\* and calls nothing.
C4_ReactivationFrame ==
    [][(last'.op = "start" /\ last'.app # NULL
            /\ status[last'.app] = APP_STATUS_RUNNING)
        => LET a == last'.app
               rd == runtime_data[a]
           IN /\ UNCHANGED << apps_list, status, runtime_data, bus_watches,
                              process_data, child_watches, procs, zombies,
                              slots, daemon >>
              /\ last'.reply = "complete_start"
              /\ IF apps_list[a].dbus_activated
                 THEN /\ heap' = [heap EXCEPT ![rd].fdo_proxy = heap'[rd].fdo_proxy]
                      /\ last'.calls # << >>
                      /\ \A i \in 1..Len(last'.calls) :
                             last'.calls[i] \in ActivateCalls \cup
                                 {"fdo_application_proxy_new_for_bus_sync"}
                      /\ heap[rd].fdo_proxy
                            => /\ heap'[rd].fdo_proxy
                               /\ Len(last'.calls) = 1
                               /\ last'.calls[1] \in ActivateCalls
                 ELSE /\ heap' = heap
                      /\ last'.calls = << >>
                      /\ last'.backend = "none"
                      /\ last'.signals = << >>
                      /\ last'.events = << >>
      ]_vars

\* A start request has just called Activate on the proxy cached for a
\* Running D-Bus activated record.
C4_Witness ==
    /\ StartOnRecord
    /\ last.pre_status = APP_STATUS_RUNNING
    /\ apps_list[last.app].dbus_activated
    /\ last.calls = << "fdo_application_call_activate_sync" >>
    /\ runtime_data[last.app] = last.pre_handle
    /\ last.pre_handle \in DOMAIN bus_watches

\* C5 -- Exactly-once termination: a manager emits terminated and releases
\* backend resources only when a record goes from Starting or Running to
\* Inactive; at each such transition it emits exactly one terminated for
\* that record and releases the resources of the handle the record held,
\* and no runtime-data structure is ever released twice.
C5_ExactlyOnceTermination ==
    LET transition ==
            /\ last.app # NULL
            /\ last.pre_status \in {APP_STATUS_STARTING, APP_STATUS_RUNNING}
            /\ status[last.app] = APP_STATUS_INACTIVE
        releasing ==
            \/ last.released # {}
            \/ \E i \in 1..Len(last.signals) : last.signals[i][2] = TERMINATED
    IN /\ \A h \in Handles : heap[h].freed <= 1
       /\ releasing => transition
       /\ transition
            => /\ SignalCount(TERMINATED, apps_list[last.app].app_id) = 1
               /\ last.released = {last.pre_handle}
               /\ runtime_data[last.app] = NULL
               /\ last.pre_handle \notin child_watches
               /\ last.pre_handle \notin DOMAIN bus_watches
               /\ last.pre_handle \notin slots

\* C6 -- Duplicate-"active" suppression: a property-change notification
\* whose query yields "active" while the record is already Running changes
\* no status and emits no started.
C6_DuplicateActiveSuppressed ==
    (last.op = "properties_changed" /\ last.id = "active"
        /\ last.pre_status = APP_STATUS_RUNNING)
        => /\ status[last.app] = APP_STATUS_RUNNING
           /\ last.signals = << >>
           /\ last.events = << >>

\* C7 -- Unknown id: a start request whose id equals no record's app_id
\* (byte for byte) gets the error reply, reaches no manager, emits nothing
\* and changes neither the catalog nor any record.
C7_UnknownId ==
    [][(last'.op = "start"
            /\ \A i \in 1..Len(apps_list) : apps_list[i].app_id # last'.id)
        => /\ last'.reply = "G_DBUS_ERROR_INVALID_ARGS"
           /\ last'.backend = "none"
           /\ last'.calls = << >>
           /\ last'.signals = << >>
           /\ last'.events = << >>
           /\ UNCHANGED << apps_list, status, runtime_data, heap, process_data,
                           child_watches, procs, zombies, bus_watches, slots,
                           daemon >>
      ]_vars

\* A start request with an id that differs from a record's only in case
\* has just been answered with the error, while that record is in use.
C7_Witness ==
    /\ last.op = "start"
    /\ last.id = "Clock"
    /\ last.reply = "G_DBUS_ERROR_INVALID_ARGS"
    /\ \E a \in AppIdx : runtime_data[a] # NULL

\* C8 -- Start failure is reported: when the manager's start fails, the
\* start call is answered with a failure, not with success.
C8_StartFailureReported ==
    (last.op = "start" /\ last.backend_ret = "failed")
        => last.reply \in {"SpawnFailed", "UnitStartFailed"}

\* C9 -- Retry after failure: after a failed start attempt the record is
\* Inactive and has no runtime handle, and a start request for an Inactive
\* record always reaches a manager's start.
C9_RetryAfterFailure ==
    /\ (last.op \in {"start", "unit_start"} /\ last.backend_ret = "failed")
          => /\ status[last.app] = APP_STATUS_INACTIVE
             /\ runtime_data[last.app] = NULL
    /\ (StartOnRecord /\ last.pre_status = APP_STATUS_INACTIVE)
          => last.backend # "none"

\* The manager and the primitives that belong to each activation kind.
BackendOf(kind) ==
    CASE kind = "Process" -> "process"
      [] kind = "BusActivated" -> "dbus"
      [] kind = "UnitActivated" -> "systemd"

MachineryOf(kind) ==
    CASE kind = "Process" -> {"g_spawn_async", "g_child_watch_add"}
      [] kind = "BusActivated" -> {"g_bus_watch_name"}
      [] kind = "UnitActivated" -> {"StartUnit", "sd_bus_match_signal"}

\* C10 -- Backend selection and isolation: a start request on an Inactive
\* record runs the start of the manager its activation kind determines and
\* uses no primitive of another manager.
C10_BackendSelection ==
    (StartOnRecord /\ last.pre_status = APP_STATUS_INACTIVE)
        => /\ last.backend = BackendOf(KindOf(last.app))
           /\ \A i \in 1..Len(last.calls) :
                  last.calls[i] \in MachineryOf(KindOf(last.app))

\* C11 -- Process start: a successful start of an Inactive Process record
\* emits exactly one started event for it and leaves it Running, and the
\* record stays Running for as long as a process spawned for it runs.
C11_ProcessStartRunning ==
    /\ (StartOnRecord /\ KindOf(last.app) = "Process"
            /\ last.pre_status = APP_STATUS_INACTIVE /\ last.backend_ret = "ok")
          => /\ status[last.app] = APP_STATUS_RUNNING
             /\ last.events = << << STARTED, last.id >> >>
    /\ \A h \in Handles :
          (h \in procs /\ KindOf(heap[h].app) = "Process")
              => status[heap[h].app] = APP_STATUS_RUNNING

\* C12 -- Process exit: every exit of a process spawned for a Process
\* record is handled: the handle is cleared, the status is Inactive and
\* exactly one terminated event for that record is emitted; no such exit
\* goes by without its handler.
C12_ProcessExitReported ==
    /\ (last.op = "child_exit" /\ KindOf(last.app) = "Process")
          => /\ daemon = "running"
             /\ status[last.app] = APP_STATUS_INACTIVE
             /\ runtime_data[last.app] = NULL
             /\ last.events = << << TERMINATED, apps_list[last.app].app_id >> >>
    /\ (last.op = "child_exit_unwatched") => KindOf(last.app) # "Process"
    /\ \A h \in zombies : KindOf(heap[h].app) # "Process"

\* The name watches registered for record a.
WatchesOf(a) == { w \in DOMAIN bus_watches : heap[w].app = a }

\* C13 -- Bus double start: a Bus record never has more than one name
\* watch, and while it is Starting it has exactly one, its own handle; a
\* Start request that finds the record Starting succeeds without calling
\* anything, leaves the record Starting with the same handle and emits
\* nothing; the name's appearance then emits exactly one started event.
C13_BusDoubleStart ==
    /\ \A a \in AppIdx :
          KindOf(a) = "BusActivated"
              => /\ Cardinality(WatchesOf(a)) <= 1
                 /\ status[a] = APP_STATUS_STARTING
                       => WatchesOf(a) = { runtime_data[a] }
    /\ (StartOnRecord /\ KindOf(last.app) = "BusActivated"
            /\ last.pre_status = APP_STATUS_STARTING)
          => /\ last.reply = "complete_start"
             /\ last.calls = << >>
             /\ last.events = << >>
             /\ status[last.app] = APP_STATUS_STARTING
             /\ runtime_data[last.app] = last.pre_handle
    /\ (last.op = "name_appeared" /\ last.pre_status = APP_STATUS_STARTING)
          => /\ status[last.app] = APP_STATUS_RUNNING
             /\ EventCount(STARTED, apps_list[last.app].app_id) = 1
             /\ Len(last.events) = 1

\* A second Start arrives while the name has not appeared yet.
C13_Witness ==
    /\ StartOnRecord
    /\ KindOf(last.app) = "BusActivated"
    /\ last.pre_status = APP_STATUS_STARTING
    /\ last.pre_handle # NULL
    /\ bus_watches[last.pre_handle] = "none"

\* The catalog positions a listing with the given flag has to cover.
ListedIdx(graphical) ==
    { i \in AppIdx : ~graphical \/ apps_list[i].graphical }

\* r holds, in catalog order, one (id, display name, icon) triple for each
\* position of ListedIdx(graphical) and nothing else.
IsListing(r, graphical) ==
    /\ Len(r) = Cardinality(ListedIdx(graphical))
    /\ \A i \in ListedIdx(graphical) :
          r[Cardinality({ j \in ListedIdx(graphical) : j <= i })]
              = << apps_list[i].app_id, apps_list[i].name, apps_list[i].icon_path >>

\* C14 -- ListApplications: the reply holds, in catalog order, the triples
\* of exactly the graphical records when graphical_only is set and of all
\* records otherwise; the call changes no record, no handle and no backend
\* resource and emits no event.
C14_ListApplications ==
    [][ last'.op = "list"
          => /\ last'.reply = "complete_list_applications"
             /\ IsListing(last'.result, last'.id = "graphical_only")
             /\ last'.events = << >> /\ last'.signals = << >>
             /\ last'.calls = << >>
             /\ UNCHANGED << apps_list, status, runtime_data, heap, process_data,
                             child_watches, procs, zombies, bus_watches, slots,
                             daemon >> ]_vars

\* A graphical-only listing that leaves a record out, asked for while some
\* record is not Inactive.
C14_Witness ==
    /\ last.op = "list"
    /\ last.id = "graphical_only"
    /\ Len(last.result) = 2
    /\ Len(last.result) < Len(apps_list)
    /\ \E a \in AppIdx : status[a] # APP_STATUS_INACTIVE

\* C15 -- Single emitter: the public events of a handler are exactly the
\* backend notifications (process, bus or unit manager) raised during it,
\* one public event per notification, with the same kind and id and in the
\* same order.
C15_SingleEmitter ==
    last.events = [ i \in 1..Len(last.signals) |->
                        << last.signals[i][2], last.signals[i][3] >> ]

\* C16 -- Daemon survival: no sequence of Start requests and
\* application-level events stops the daemon.
C16_DaemonSurvives ==
    daemon = "running"

\* The notifications of the backend that serves a record of this kind.
NotificationsOf(kind) ==
    CASE kind = "BusActivated" -> {"name_appeared", "name_vanished"}
      [] kind = "UnitActivated" -> {"properties_changed"}
      [] OTHER -> {"child_exit"}

\* C17 -- No start timeout: a record that is Starting stops being Starting
\* only in a step that is a notification of its own backend about that
\* record; no Start request, listing or event of another record changes it.
C17_StartingLeftOnlyByOwnBackend ==
    [][ \A a \in AppIdx :
          (status[a] = APP_STATUS_STARTING /\ status'[a] # APP_STATUS_STARTING)
              => /\ last'.app = a
                 /\ last'.op \in NotificationsOf(KindOf(a)) ]_vars

\* A notification about one record is handled while another record is
\* Starting and stays so.
C17_Witness ==
    /\ last.op \in {"child_exit", "name_appeared", "name_vanished",
                    "properties_changed"}
    /\ \E a \in AppIdx : /\ a # last.app
                         /\ status[a] = APP_STATUS_STARTING
                         /\ runtime_data[a] # NULL

\* C18 -- Immutability: every Start request, listing and backend
\* notification leaves the catalog's membership and order and each record's
\* id, display name, icon reference, command line, activation kind and
\* graphical flag as they were.
C18_Immutability ==
    [][ apps_list' = apps_list ]_vars

\* A record was started and torn down again; the catalog is the one the
\* daemon began with.
C18_Witness ==
    /\ apps_list = Catalog
    /\ last.op \in {"child_exit", "name_vanished", "properties_changed"}
    /\ last.released # {}
    /\ \E a \in AppIdx : runtime_data[a] # NULL

\* The activation attempt the name-appeared callback makes: with no proxy
\* cached yet the proxy is created, and Activate is called exactly when a
\* proxy came out of it.
ActivateAttempted ==
    /\ CallCount("fdo_application_proxy_new_for_bus_sync") = 1
    /\ (CallCount("fdo_application_call_activate_sync")
          + CallCount("fdo_application_call_activate_sync:error"))
         = (IF heap[last.pre_handle].fdo_proxy THEN 1 ELSE 0)

\* C19 -- Bus name appeared: after the name-appeared callback for a
\* Starting Bus record the record is Running, an activation was attempted
\* and exactly one started event was emitted, whether the proxy creation
\* and the Activate call succeeded or not; the record keeps its handle and
\* its name watch, nothing is released and no reply is sent.
C19_NameAppeared ==
    (last.op = "name_appeared" /\ last.pre_status = APP_STATUS_STARTING)
        => /\ status[last.app] = APP_STATUS_RUNNING
           /\ ActivateAttempted
           /\ last.events = << << STARTED, apps_list[last.app].app_id >> >>
           /\ last.pre_handle # NULL
           /\ runtime_data[last.app] = last.pre_handle
           /\ last.pre_handle \in DOMAIN bus_watches
           /\ heap[last.pre_handle].freed = 0
           /\ last.released = {}
           /\ last.reply = "none"

\* The name appeared and the activation failed: no proxy could be created,
\* or the Activate call returned an error.
C19_Witness ==
    /\ last.op = "name_appeared"
    /\ last.pre_status = APP_STATUS_STARTING
    /\ \/ ~heap[last.pre_handle].fdo_proxy
       \/ CallCount("fdo_application_call_activate_sync:error") = 1

\* C20 -- Bus name vanished: after the name-vanished callback for a Bus
\* record that was Starting or Running (the name may never have appeared)
\* the watch is unregistered, the cached proxy dropped and the handle
\* freed once, the record has no handle and is Inactive, and exactly one
\* terminated event was emitted; every watch still registered belongs to
\* a live handle attached to its record, so no callback of a released
\* watch can run.
C20_NameVanished ==
    /\ (last.op = "name_vanished"
            /\ last.pre_status \in {APP_STATUS_STARTING, APP_STATUS_RUNNING})
          => /\ status[last.app] = APP_STATUS_INACTIVE
             /\ runtime_data[last.app] = NULL
             /\ last.pre_handle # NULL
             /\ last.pre_handle \notin DOMAIN bus_watches
             /\ ~heap[last.pre_handle].fdo_proxy
             /\ heap[last.pre_handle].freed = 1
             /\ last.released = { last.pre_handle }
             /\ CallCount("g_bus_unwatch_name") = 1
             /\ last.events = << << TERMINATED, apps_list[last.app].app_id >> >>
    /\ \A w \in DOMAIN bus_watches :
          /\ heap[w].freed = 0
          /\ runtime_data[heap[w].app] = w

\* The name vanished without ever having appeared.
C20_Witness ==
    /\ last.op = "name_vanished"
    /\ last.pre_status = APP_STATUS_STARTING
    /\ status[last.app] = APP_STATUS_INACTIVE

\* C21 -- Unit readiness: after a property-change notification for a
\* Starting unit record whose queried ActiveState is "active", the record
\* is Running, it keeps its handle and its subscription, and the unit
\* manager emitted exactly one started for it (and nothing else).
C21_UnitReadiness ==
    (last.op = "properties_changed" /\ last.id = "active"
        /\ last.pre_status = APP_STATUS_STARTING)
        => /\ CallCount("sd_bus_get_property_string") = 1
           /\ status[last.app] = APP_STATUS_RUNNING
           /\ last.pre_handle # NULL
           /\ runtime_data[last.app] = last.pre_handle
           /\ last.pre_handle \in slots
           /\ heap[last.pre_handle].slot
           /\ heap[last.pre_handle].freed = 0
           /\ last.released = {}
           /\ last.signals
                = << << "systemd", STARTED, apps_list[last.app].app_id >> >>

\* A Starting unit record has just been reported "active".
C21_Witness ==
    /\ last.op = "properties_changed"
    /\ last.id = "active"
    /\ last.pre_status = APP_STATUS_STARTING
    /\ KindOf(last.app) = "UnitActivated"
    /\ status[last.app] = APP_STATUS_RUNNING

\* C22 -- Unit termination: after a property-change notification for a
\* Starting or Running unit record whose queried ActiveState is "inactive",
\* the subscription is released, the handle is cleared and freed once, the
\* record is Inactive and the unit manager emitted exactly one terminated;
\* no subscription exists for a record without a handle, and the callback
\* run for a unit record without a handle changes nothing and emits nothing.
C22_UnitTermination ==
    /\ (last.op = "properties_changed" /\ last.id = "inactive"
            /\ last.pre_status \in {APP_STATUS_STARTING, APP_STATUS_RUNNING})
          => /\ status[last.app] = APP_STATUS_INACTIVE
             /\ runtime_data[last.app] = NULL
             /\ last.pre_handle # NULL
             /\ last.pre_handle \notin slots
             /\ ~heap[last.pre_handle].slot
             /\ heap[last.pre_handle].freed = 1
             /\ last.released = { last.pre_handle }
             /\ last.signals
                  = << << "systemd", TERMINATED, apps_list[last.app].app_id >> >>
    /\ \A h \in slots : runtime_data[heap[h].app] = h /\ heap[h].freed = 0
    /\ \A a \in AppIdx, msg \in UnitStates :
          (apps_list[a].systemd_activated /\ runtime_data[a] = NULL)
              => systemd_manager_cb(Begin("properties_changed", msg, a), a, msg)
                   = Begin("properties_changed", msg, a)

\* A Running unit record has just been reported "inactive".
C22_Witness ==
    /\ last.op = "properties_changed"
    /\ last.id = "inactive"
    /\ last.pre_status = APP_STATUS_RUNNING
    /\ runtime_data[last.app] = NULL

\* C23 -- Unit other states: a property-change notification whose queried
\* ActiveState is neither "active" nor "inactive" (including a failed
\* query) changes no status, no handle, no subscription and no other
\* resource and emits nothing.
C23_UnitOtherStates ==
    [][ (last'.op = "properties_changed" /\ last'.id \notin {"active", "inactive"})
          => /\ UNCHANGED << apps_list, status, runtime_data, heap, process_data,
                             child_watches, procs, zombies, bus_watches, slots,
                             daemon >>
             /\ last'.signals = << >>
             /\ last'.events = << >>
             /\ last'.released = {} ]_vars

\* A unit record holding a subscription has just been reported in a state
\* other than "active" and "inactive", once as a failed query.
C23_Witness ==
    /\ last.op = "properties_changed"
    /\ last.id \in {"failed", ""}
    /\ last.pre_status \in {APP_STATUS_STARTING, APP_STATUS_RUNNING}
    /\ last.pre_handle \in slots

\* C24 -- Unit subscription discipline: the subscription is attempted
\* only after StartUnit was acknowledged and its reply read; every
\* subscription belongs to a record that holds its handle; and after a
\* failed unit start the record is Inactive without a handle and nothing
\* acquired during the attempt is left: no subscription, no encoded unit
\* path, and the structure is freed once.
C24_UnitSubscriptionDiscipline ==
    /\ (last.op = "unit_start"
            /\ CallCount("sd_bus_match_signal")
                 + CallCount("sd_bus_match_signal:error") > 0)
          => /\ last.calls[1] = "StartUnit"
             /\ CallCount("sd_bus_message_read:error") = 0
    /\ \A h \in Handles :
          heap[h].slot => /\ h \in slots
                          /\ runtime_data[heap[h].app] = h
                          /\ status[heap[h].app] # APP_STATUS_INACTIVE
    /\ (last.op = "unit_start" /\ last.backend_ret = "failed")
          => /\ status[last.app] = APP_STATUS_INACTIVE
             /\ runtime_data[last.app] = NULL
             /\ \A h \in last.released :
                   /\ h \notin slots
                   /\ ~heap[h].slot
                   /\ ~heap[h].esc_service
                   /\ heap[h].freed = 1
             /\ Cardinality(last.released) = 1

\* The steps in which a backend reports the end of an application.
TerminationOps == {"child_exit", "name_vanished", "properties_changed"}

\* C25 -- Re-entrant lifecycle: a Start request that follows the
\* termination notification which returned the record to Inactive runs the
\* start of the record's own backend, and when that start succeeds the
\* record holds a handle that did not exist before, not freed, and is no
\* longer Inactive.
C25_ReentrantLifecycle ==
    [][ ( /\ last.op \in TerminationOps
          /\ last.app # NULL
          /\ last.released # {}
          /\ status[last.app] = APP_STATUS_INACTIVE
          /\ runtime_data[last.app] = NULL
          /\ last'.op = "start"
          /\ last'.app = last.app )
        => /\ last'.backend = BackendOf(KindOf(last.app))
           /\ last'.backend_ret = "ok"
                => /\ runtime_data'[last.app] \notin DOMAIN heap
                   /\ runtime_data'[last.app] \in DOMAIN heap'
                   /\ heap'[runtime_data'[last.app]].freed = 0
                   /\ status'[last.app] # APP_STATUS_INACTIVE ]_vars

\* C26 -- Activation path derivation: the object path computed for an
\* identifier is "/" followed by the identifier with every "." replaced by
\* "/" and every other character kept; it is a function of the identifier.
C26_ActivationPath ==
    (last.op = "activate_path")
        => /\ Len(last.result) = Len(last.id) + 1
           /\ last.result[1] = "/"
           /\ \A i \in 1..Len(last.id) :
                 last.result[i + 1] = (IF last.id[i] = "." THEN "/" ELSE last.id[i])

\* The path of an identifier with two dots, such as o.n.o.
C26_Witness ==
    /\ last.op = "activate_path"
    /\ Cardinality({ i \in 1..Len(last.id) : last.id[i] = "." }) = 2
    /\ last.id[1] # "."
    /\ Cardinality({ i \in 1..Len(last.result) : last.result[i] = "/" }) = 3

\* The positions at which a word of the command line begins, and the
\* position at which the word beginning at i ends.
WordStarts(command) ==
    { i \in 1..Len(command) :
          command[i] # " " /\ (i = 1 \/ command[i - 1] = " ") }

WordEnd(command, i) ==
    CHOOSE j \in i..Len(command) :
        /\ \A k \in i..j : command[k] # " "
        /\ (j = Len(command) \/ command[j + 1] = " ")

\* C27 -- Argument vector: the vector handed to the spawn primitive holds,
\* in order, exactly the blank-separated words of the command line, with
\* no empty argument, also when blanks repeat, lead or trail.
C27_ArgumentVector ==
    (last.op = "split_command")
        => /\ Len(last.result) = Cardinality(WordStarts(last.id))
           /\ \A i \in WordStarts(last.id) :
                 last.result[Cardinality({ j \in WordStarts(last.id) : j <= i })]
                     = SubSeq(last.id, i, WordEnd(last.id, i))

\* C28 -- Event/state consistency at emission: whenever a manager emits
\* started for a record, the record is Running and has its runtime handle
\* at that moment; whenever it emits terminated, the record is Inactive and
\* has no runtime handle at that moment.
C28_StateAtEmission ==
    \A i \in 1..Len(last.signals) :
        /\ last.signals[i][2] = STARTED
              => /\ last.at_emit[i][1] = APP_STATUS_RUNNING
                 /\ last.at_emit[i][2] # NULL
        /\ last.signals[i][2] = TERMINATED
              => /\ last.at_emit[i][1] = APP_STATUS_INACTIVE
                 /\ last.at_emit[i][2] = NULL

\* C29 -- Exit handling releases the right handle: in the step that handles
\* the exit of a process, the exit watch removed, the runtime data freed
\* and the entry unlinked from the tracking list are those registered for
\* the process that exited, not those of another process.
C29_RightHandleReleased ==
    [][ last'.op = "child_exit"
          => LET exited == procs \ procs'
             IN /\ last'.released = exited
                /\ child_watches \ child_watches' = exited
                /\ Tracked(process_data) \ Tracked(process_data') = exited ]_vars

\* C30 -- Cross-application isolation: a step that handles a Start request
\* or a backend notification for one record leaves the status and the
\* runtime handle of every other record as they were and emits no event
\* carrying another record's id.
C30_CrossApplicationIsolation ==
    [][ (last'.app # NULL
            /\ last'.op \in {"start", "unit_start", "child_exit", "name_appeared",
                             "name_vanished", "properties_changed"})
          => \A b \in AppIdx \ {last'.app} :
                /\ status'[b] = status[b]
                /\ runtime_data'[b] = runtime_data[b]
                /\ \A i \in 1..Len(last'.events) :
                      last'.events[i][2] # apps_list[b].app_id
                /\ \A i \in 1..Len(last'.signals) :
                      last'.signals[i][3] # apps_list[b].app_id ]_vars

\* C31 -- No missed unit readiness: a UnitActivated record whose unit is
\* "active", whose subscription is installed and for which no notification
\* is left to process is Running.  (In such a state nothing is left for
\* the daemon to do, so a record that is not Running there never becomes
\* Running however fairly the delivered notifications are processed.)
C31_NoMissedReadiness ==
    \A a \in AppIdx :
        (/\ KindOf(a) = "UnitActivated"
         /\ runtime_data[a] # NULL
         /\ runtime_data[a] \in slots
         /\ units[a].state = "active"
         /\ units[a].pending = 0)
        => status[a] = APP_STATUS_RUNNING

\* C32 -- Shutdown release: when the daemon is disposed, every handle a
\* record still holds unreleased is released exactly once and by the
\* routine of the backend that created it: a bus handle loses its name
\* watch and its proxy, a unit handle its subscription and its encoded
\* path, and no structure is freed a second time.
C32_ShutdownRelease ==
    [][last'.op = "dispose"
        => \A a \in AppIdx :
               LET rd == runtime_data[a]
               IN (rd # NULL /\ heap[rd].freed = 0)
                  => /\ heap'[rd].freed = 1
                     /\ rd \notin DOMAIN bus_watches'
                     /\ rd \notin slots'
                     /\ ~heap'[rd].fdo_proxy
                     /\ ~heap'[rd].esc_service
      ]_vars

\* C33 -- Exactly one reply per request: when a "start" call has been
\* handled, exactly one reply was sent on its invocation, the error for an
\* unknown id and the completion for a known one, whatever the record's
\* status is by then.
C33_ExactlyOneReply ==
    last.op = "start"
    => /\ Len(last.replies) = 1
       /\ last.replies[1] = IF last.app = NULL THEN "G_DBUS_ERROR_INVALID_ARGS"
                            ELSE "complete_start"

\* C34 -- Process tracking list consistency: between handlers the process
\* manager's tracking list holds exactly the runtime data attached to
\* Process records, each once, and every entry belongs to a spawned
\* process that is still running (or whose exit is not handled yet).
C34_TrackingListConsistency ==
    /\ Tracked(process_data)
           = { runtime_data[a] : a \in { b \in AppIdx : /\ KindOf(b) = "Process"
                                                        /\ runtime_data[b] # NULL } }
    /\ \A i, j \in 1..Len(process_data) :
           process_data[i] = process_data[j] => i = j
    /\ \A e \in Tracked(process_data) : e \in procs /\ heap[e].freed = 0

\* C35 -- Activation proxy lifetime: a proxy is cached only in the live
\* handle of a name watch that exists, and stays cached as long as that
\* watch exists; an activate call (the name appeared, or a start request
\* for a Running D-Bus activated record) creates the proxy exactly when
\* none is cached, so a creation that succeeded is not repeated and one
\* that failed is tried again, and no other step creates a proxy.
C35_ProxyLifetime ==
    [][LET a == last'.app
           activates ==
               /\ a # NULL
               /\ apps_list[a].dbus_activated
               /\ runtime_data[a] # NULL
               /\ \/ last'.op = "name_appeared"
                  \/ last'.op = "start" /\ status[a] = APP_STATUS_RUNNING
           created ==
               Cardinality({i \in 1..Len(last'.calls) :
                  last'.calls[i] = "fdo_application_proxy_new_for_bus_sync"})
       IN /\ \A h \in 1..Len(heap') :
                 heap'[h].fdo_proxy
                     => /\ heap'[h].kind = "dbus"
                        /\ heap'[h].freed = 0
                        /\ h \in DOMAIN bus_watches'
          /\ \A h \in Handles :
                 (heap[h].fdo_proxy /\ h \in DOMAIN bus_watches')
                     => heap'[h].fdo_proxy
          /\ activates
                 => created = (IF heap[runtime_data[a]].fdo_proxy THEN 0 ELSE 1)
          /\ ~activates
                 => /\ created = 0
                    /\ \A h \in Handles : heap'[h].fdo_proxy => heap[h].fdo_proxy
      ]_vars

\* A start request for a Running D-Bus activated record has just created
\* the proxy, the creation attempted when the name appeared having failed,
\* and called Activate on it.
C35_Witness ==
    /\ StartOnRecord
    /\ last.pre_status = APP_STATUS_RUNNING
    /\ apps_list[last.app].dbus_activated
    /\ last.calls = << "fdo_application_proxy_new_for_bus_sync",
                       "fdo_application_call_activate_sync" >>
    /\ heap[last.pre_handle].fdo_proxy
    /\ last.pre_handle \in DOMAIN bus_watches

====
